---- MODULE Spec2Model ----
(***************************************************************************)
(* Sale creation, inventory and authorization of the business-management   *)
(* server: the route handlers of server/routes.ts over the storage layer   *)
(* (class DatabaseStorage) and the tables of the shared schema.            *)
(*                                                                         *)
(* Every database call of a handler is awaited on its own and runs outside *)
(* any transaction, so each call is one atomic step and the steps of       *)
(* concurrent requests interleave freely.  Synchronous code between two    *)
(* awaits is folded into the step of the database call that follows it.    *)
(*                                                                         *)
(* Money is counted in hundredths (the decimal(10,2) columns).  The game   *)
(* path multiplies and adds in double precision and stores the printed     *)
(* result in a decimal(10,2) column; for amounts that fit the column the   *)
(* rounding error of the doubles is far below half a hundredth, so the     *)
(* stored value is the exact product or sum of hundredths.                 *)
(***************************************************************************)
EXTENDS Integers, Sequences, FiniteSets, TLC

\* ---------------------------------------------------------------- bounds
MaxItems == 2          \* lines of one request body
MaxQty == 2            \* quantity of one line
MaxClock == 1          \* milliseconds that pass
ClockStart == 35       \* Date.now() when the first request arrives
MaxEmployeeRows == 2   \* business_employees rows ever inserted

\* ------------------------------------------------------------ identities
Requests == {1, 2}
Users == {"u1", "u2", "u3"}
BusinessIds == {"b1", "b2"}
ProductIds == {"p1", "p2", "p3"}
NoProductId == "p0"
NoUser == "none"
\* the identities the provider knows: the users and one who never logged in
Identities == Users \cup {"u4"}
\* the e-mail the provider has verified for an identity
ProviderEmail(id) ==
    CASE id = "u1" -> "e1" [] id = "u2" -> "e2" [] id = "u3" -> "e3"
      [] OTHER -> "e4"
Emails == {"e1", "e2", "e3", "e4"}
BadApiKey == "rp_bad"
ApiKeys == {"rp_b1", "rp_b2"}
\* what the body of a web request says for productName and for unitPrice,
\* totalPrice and totalAmount: right for one unit of p1, wrong otherwise
ClientNames == {"n1"}
ClientAmounts == {1}

VARIABLES
    businesses,         \* table businesses: id -> row
    businessEmployees,  \* table business_employees: set of rows
    products,           \* table products: id -> row
    sales,              \* table sales: set of rows
    saleItems,          \* table sale_items: set of rows
    invoices,           \* table invoices: set of rows
    now,                \* Date.now(), milliseconds
    req,                \* the requests in flight: locals of each handler
    nextEmployeeId,     \* ids handed out to business_employees rows
    authz,              \* last answer of isUserAuthorizedForBusiness
    resp,               \* last response of a handler that is one step
    users,              \* table users: id -> row
    auth,               \* the request inside the isAuthenticated middleware
    fn,                 \* the serverless process: appPromise and its requests
    rd                  \* the read request in flight: locals of its handler

vars == <<businesses, businessEmployees, products, sales, saleItems,
          invoices, now, req, nextEmployeeId, authz, resp, users, auth, fn, rd>>

dbVars == <<businesses, businessEmployees, products, sales, saleItems,
            invoices>>

\* what the sale handlers never touch
sideVars == <<resp, users, auth, fn, rd>>

\* ------------------------------------------------------- pure functions

\* Number.prototype.toString(36).toUpperCase(): the digits of n in base 36
Base36Digits == <<"0","1","2","3","4","5","6","7","8","9","A","B","C","D",
                  "E","F","G","H","I","J","K","L","M","N","O","P","Q","R",
                  "S","T","U","V","W","X","Y","Z">>

RECURSIVE ToBase36(_)
ToBase36(n) ==
    IF n < 36 THEN <<Base36Digits[n + 1]>>
    ELSE Append(ToBase36(n \div 36), Base36Digits[(n % 36) + 1])

\* `INV-${Date.now().toString(36).toUpperCase()}`
InvoiceNumber(t) == <<"I", "N", "V", "-">> \o ToBase36(t)

\* storage.getProduct: the row, or undefined
HasProduct(id) == id \in DOMAIN products

\* (product.stock || 0) < item.quantity
InsufficientStockOffByOne(stock, quantity) == stock + 1 < quantity

InsufficientStock(stock, quantity) == stock < quantity

\* product.businessId !== businessId
ForeignProductUnchecked(productBusinessId, businessId) == FALSE

ForeignProduct(productBusinessId, businessId) ==
    productBusinessId # businessId

\* sql`${products.stock} - ${item.quantity}`
DecrementStockByOne(stock, quantity) == stock - 1

DecrementStock(stock, quantity) == stock - quantity

\* unique constraint of invoices.invoice_number
InvoiceNumberTakenFree(number) == FALSE

InvoiceNumberTaken(number) ==
    \E inv \in invoices : inv.invoiceNumber = number

\* storage.getBusinessByApiKey: the ids of the rows with that key
BusinessesWhateverKey(apiKey) == DOMAIN businesses

BusinessesByApiKey(apiKey) ==
    {b \in DOMAIN businesses : businesses[b].apiKey = apiKey}

\* storage.isUserAuthorizedForBusiness
OwnerRows(userId, businessId) ==
    {b \in DOMAIN businesses :
        b = businessId /\ businesses[b].ownerId = userId}

EmployeeRowsAnyBusiness(userId, businessId) ==
    {e \in businessEmployees : e.userId = userId}

EmployeeRows(userId, businessId) ==
    {e \in businessEmployees :
        e.businessId = businessId /\ e.userId = userId}

IsUserAuthorizedWhoever(userId, businessId) == TRUE

IsUserAuthorizedForBusiness(userId, businessId) ==
    IF OwnerRows(userId, businessId) # {} THEN TRUE
    ELSE EmployeeRows(userId, businessId) # {}

\* ------------------------------------------------------------- requests

\* req.body of a sale request before one has arrived
NoBody == [buyerName |-> "none", lines |-> <<>>]

IdleRequest ==
    [pc |-> "idle", path |-> "none", status |-> 0, reason |-> "none",
     raw |-> NoBody,
     userId |-> NoUser, businessId |-> "none", sellerId |-> NoUser,
     apiKey |-> "none",
     items |-> <<>>, totalAmount |-> 0, i |-> 0,
     sawShort |-> FALSE, sawForeign |-> FALSE,
     dec |-> [p \in ProductIds |-> 0]]

Reply(r, code, why) ==
    [req[r] EXCEPT !.pc = "done", !.status = code, !.reason = why]

\* the products the owners have created through POST /api/products
InitialProducts ==
    [p \in ProductIds |->
        CASE p = "p1" -> [businessId |-> "b1", name |-> "n1", price |-> 1, stock |-> 2]
          [] p = "p2" -> [businessId |-> "b1", name |-> "n2", price |-> 2, stock |-> 1]
          [] OTHER    -> [businessId |-> "b2", name |-> "n3", price |-> 1, stock |-> 1]]

\* the users that have logged in before
InitialUsers ==
    [u \in Users |-> [email |-> ProviderEmail(u), firstName |-> "old"]]

\* the businesses their owners have created through POST /api/businesses
InitialBusinesses ==
    [b \in BusinessIds |->
        IF b = "b1" THEN [ownerId |-> "u1", apiKey |-> "rp_b1"]
                    ELSE [ownerId |-> "u2", apiKey |-> "rp_b2"]]

\* a request that has not reached the middleware yet
IdleAuth ==
    [pc |-> "idle", scheme |-> "none", token |-> "none", providerUp |-> TRUE,
     status |-> 0, userId |-> NoUser, wrote |-> FALSE]

\* api/index.ts as deployed: the file holds the handler twice and part_007
\* holds a third form; "static" is index.ts 6-18 (no try/catch), "dynamic" is
\* index.ts 23-48 (await import, try/catch), "guarded" is part_007 145-173
Variants == {"static", "dynamic", "guarded"}

\* requests the serverless process is serving
FnRequests == {"f1", "f2"}

\* let appPromise = null; a promise is the index of its initializeApp() call
NoPromise == 0

\* a request of the serverless handler before it arrives; late records
\* that some initializeApp() promise had already rejected when it arrived
IdleFn ==
    [pc |-> "idle", promise |-> NoPromise, outcome |-> "none", late |-> FALSE]

\* a GET request before it arrives: granted is what the handler's
\* authorization reads have let through (businessIds of a listing, the
\* business that passed isUserAuthorizedForBusiness), held the rows a by-id
\* handler has fetched, view the entities of the response
IdleRead ==
    [pc |-> "idle", route |-> "none", userId |-> NoUser, target |-> "none",
     granted |-> {}, held |-> {}, view |-> {}, status |-> 0]

\* the process after a cold start: nothing deployed is running yet
ColdProcess ==
    [variant |-> "none", appPromise |-> NoPromise, inits |-> <<>>,
     h |-> [f \in FnRequests |-> IdleFn]]

Init ==
    /\ businesses = InitialBusinesses
    /\ businessEmployees = {[id |-> 0, businessId |-> "b2", userId |-> "u3"]}
    /\ products = InitialProducts
    /\ sales = {}
    /\ saleItems = {}
    /\ invoices = {}
    /\ now = ClockStart
    /\ req = [r \in Requests |-> IdleRequest]
    /\ nextEmployeeId = 1
    /\ authz = [userId |-> NoUser, businessId |-> "none", result |-> FALSE]
    /\ resp = [route |-> "none", status |-> 0]
    /\ users = InitialUsers
    /\ auth = IdleAuth
    /\ fn = ColdProcess
    /\ rd = IdleRead

\* POST /api/sales: schema parse and authorization gate
WebSaleStart(r) ==
    /\ req[r].pc = "idle"
    /\ \E userId \in Users, businessId \in BusinessIds :
          LET started == [req[r] EXCEPT !.path = "web", !.userId = userId,
                                        !.businessId = businessId,
                                        !.sellerId = userId]
          IN  req' = [req EXCEPT ![r] =
                 IF IsUserAuthorizedForBusiness(userId, businessId)
                 THEN [started EXCEPT !.pc = "validate"]
                 ELSE [started EXCEPT !.pc = "done", !.status = 403,
                                      !.reason = "forbidden"]]
    /\ UNCHANGED <<dbVars, now, nextEmployeeId, authz, sideVars>>

\* POST /api/game/sales, seller resolution: the supplied sellerId if it is
\* authorized for the business, the owner otherwise
ResolveSellerTrusting(sellerId, businessId) ==
    IF sellerId # NoUser THEN sellerId ELSE businesses[businessId].ownerId

ResolveSeller(sellerId, businessId) ==
    IF sellerId # NoUser /\ IsUserAuthorizedForBusiness(sellerId, businessId)
    THEN sellerId
    ELSE businesses[businessId].ownerId

\* POST /api/game/sales with the given businessApiKey and sellerId: schema
\* parse, API key lookup, seller resolution
GameSaleBegin(r, apiKey, sellerId) ==
    /\ req[r].pc = "idle"
    /\ LET found == BusinessesByApiKey(apiKey)
           started == [req[r] EXCEPT !.path = "game", !.apiKey = apiKey]
       IN  IF found = {}
           THEN req' = [req EXCEPT ![r] =
                   [started EXCEPT !.pc = "done", !.status = 401,
                                   !.reason = "apikey"]]
           ELSE \E b \in found :
                   req' = [req EXCEPT ![r] =
                      [started EXCEPT
                         !.pc = "validate",
                         !.businessId = b,
                         !.sellerId = ResolveSeller(sellerId, b)]]
    /\ UNCHANGED <<dbVars, now, nextEmployeeId, authz, sideVars>>

GameSaleStart(r) ==
    \E apiKey \in ApiKeys \cup {BadApiKey}, sellerId \in Users \cup {NoUser} :
        GameSaleBegin(r, apiKey, sellerId)

\* One iteration of the product validation loop of either handler.  The
\* body's item list is fixed when the request is parsed; the loop reads it
\* one item at a time, so the model draws each item when the loop reaches
\* it.  The web handler reads only productId and quantity here and keeps
\* the client's line as it is; the game handler builds the line from the
\* product row.
ValidateItem(r, productId, quantity) ==
    LET me == req[r]
        noted == [me EXCEPT
                    !.sawShort = @ \/ (HasProduct(productId)
                                       /\ products[productId].stock < quantity),
                    !.sawForeign = @ \/ (HasProduct(productId)
                                         /\ products[productId].businessId # me.businessId)]
    IN  IF ~HasProduct(productId)
        THEN [noted EXCEPT !.pc = "done", !.status = 400, !.reason = "notfound"]
        ELSE IF ForeignProduct(products[productId].businessId, me.businessId)
        THEN [noted EXCEPT !.pc = "done", !.status = 400, !.reason = "foreign"]
        ELSE IF InsufficientStock(products[productId].stock, quantity)
        THEN [noted EXCEPT !.pc = "done", !.status = 400, !.reason = "stock"]
        ELSE IF me.path = "web"
        THEN [noted EXCEPT !.items = Append(@,
                 [productId |-> productId, quantity |-> quantity,
                  productName |-> "client", unitPrice |-> 0, totalPrice |-> 0])]
        ELSE [noted EXCEPT
                 !.items = Append(@,
                    [productId |-> productId, quantity |-> quantity,
                     productName |-> products[productId].name,
                     unitPrice |-> products[productId].price,
                     totalPrice |-> products[productId].price * quantity]),
                 !.totalAmount = @ + products[productId].price * quantity]

WebValidateItem(r) ==
    /\ req[r].pc = "validate"
    /\ req[r].path = "web"
    /\ Len(req[r].items) < MaxItems
    /\ \E productId \in ProductIds \cup {NoProductId}, quantity \in 1..MaxQty :
          req' = [req EXCEPT ![r] = ValidateItem(r, productId, quantity)]
    /\ UNCHANGED <<dbVars, now, nextEmployeeId, authz, sideVars>>

GameValidateItem(r) ==
    /\ req[r].pc = "validate"
    /\ req[r].path = "game"
    /\ Len(req[r].items) < MaxItems
    /\ \E productId \in ProductIds \cup {NoProductId}, quantity \in 1..MaxQty :
          req' = [req EXCEPT ![r] = ValidateItem(r, productId, quantity)]
    /\ UNCHANGED <<dbVars, now, nextEmployeeId, authz, sideVars>>

\* createSale, first statement: db.insert(sales).values(saleData).
\* The web handler passes the client's totalAmount on, the game handler
\* the sum it computed in the validation loop.
InsertSale(r) ==
    /\ req[r].pc = "validate"
    /\ \E totalAmount \in IF req[r].path = "web" THEN ClientAmounts
                                                 ELSE {req[r].totalAmount} :
          /\ sales' = sales \cup
                {[id |-> r, businessId |-> req[r].businessId,
                  sellerId |-> req[r].sellerId, totalAmount |-> totalAmount,
                  source |-> req[r].path]}
          /\ req' = [req EXCEPT ![r] =
                [@ EXCEPT !.totalAmount = totalAmount, !.i = 1,
                          !.pc = IF Len(req[r].items) = 0 THEN "insertInvoice"
                                                          ELSE "insertItem"]]
    /\ UNCHANGED <<businesses, businessEmployees, products, saleItems,
                   invoices, now, nextEmployeeId, authz, sideVars>>

\* createSale, loop body, first statement: db.insert(saleItems).
\* On the web path productName, unitPrice and totalPrice of the line are
\* the strings of the request body, read here for the first time.
InsertSaleItem(r) ==
    /\ req[r].pc = "insertItem"
    /\ LET item == req[r].items[req[r].i]
       IN  \E productName \in IF req[r].path = "web" THEN ClientNames
                                                    ELSE {item.productName},
              unitPrice \in IF req[r].path = "web" THEN ClientAmounts
                                                  ELSE {item.unitPrice},
              totalPrice \in IF req[r].path = "web" THEN ClientAmounts
                                                   ELSE {item.totalPrice} :
              saleItems' = saleItems \cup
                 {[saleId |-> r, line |-> req[r].i,
                   productId |-> item.productId, productName |-> productName,
                   quantity |-> item.quantity, unitPrice |-> unitPrice,
                   totalPrice |-> totalPrice]}
    /\ req' = [req EXCEPT ![r].pc = "updateStock"]
    /\ UNCHANGED <<businesses, businessEmployees, products, sales, invoices,
                   now, nextEmployeeId, authz, sideVars>>

\* createSale, loop body, second statement: db.update(products) setting
\* stock to stock - quantity for the line's product.
UpdateStock(r) ==
    /\ req[r].pc = "updateStock"
    /\ LET item == req[r].items[req[r].i]
       IN  /\ products' = [products EXCEPT ![item.productId].stock =
                              DecrementStock(@, item.quantity)]
           /\ req' = [req EXCEPT ![r] =
                 [@ EXCEPT !.dec[item.productId] = @ + item.quantity,
                           !.i = @ + 1,
                           !.pc = IF req[r].i = Len(req[r].items)
                                  THEN "insertInvoice" ELSE "insertItem"]]
    /\ UNCHANGED <<businesses, businessEmployees, sales, saleItems, invoices,
                   now, nextEmployeeId, authz, sideVars>>

\* createSale, last statement: the invoice number is taken from the clock
\* and the row is inserted; a number already in the table violates the
\* unique constraint, createSale throws and the handler's catch answers 400.
InsertInvoice(r) ==
    /\ req[r].pc = "insertInvoice"
    /\ LET number == InvoiceNumber(now)
       IN  IF InvoiceNumberTaken(number)
           THEN /\ req' = [req EXCEPT ![r] = Reply(r, 400, "failed")]
                /\ UNCHANGED invoices
           ELSE /\ invoices' = invoices \cup
                      {[id |-> r, saleId |-> r, invoiceNumber |-> number,
                        status |-> "pending", paidAt |-> 0]}
                /\ req' = [req EXCEPT ![r] = Reply(r, 201, "created")]
    /\ UNCHANGED <<businesses, businessEmployees, products, sales, saleItems,
                   now, nextEmployeeId, authz, sideVars>>

\* a millisecond passes
Tick ==
    /\ now < ClockStart + MaxClock
    /\ now' = now + 1
    /\ UNCHANGED <<dbVars, req, nextEmployeeId, authz, sideVars>>

\* storage.getBusiness: the row, or undefined
HasBusiness(id) == id \in DOMAIN businesses

\* !business || business.ownerId !== userId, the owner-only test that the
\* handlers repeat
NotOwnerAnyone(businessId, userId) == ~HasBusiness(businessId)

NotOwner(businessId, userId) ==
    \/ ~HasBusiness(businessId)
    \/ businesses[businessId].ownerId # userId

\* storage.getUserByEmail: the ids of the rows with that e-mail
UsersByEmail(email) == {u \in DOMAIN users : users[u].email = email}

Respond(route, status) == [route |-> route, status |-> status]

\* POST /api/employees by actor: only the owner of the business may add;
\* the user is looked up by e-mail and a row is inserted, whether or not
\* that user already has a row for the business.
AddEmployeeBy(actor, businessId, email) ==
    /\ nextEmployeeId <= MaxEmployeeRows
    /\ IF NotOwner(businessId, actor)
       THEN /\ resp' = Respond("addEmployee", 403)
            /\ UNCHANGED <<businessEmployees, nextEmployeeId>>
       ELSE IF UsersByEmail(email) = {}
       THEN /\ resp' = Respond("addEmployee", 404)
            /\ UNCHANGED <<businessEmployees, nextEmployeeId>>
       ELSE \E userId \in UsersByEmail(email) :
               /\ businessEmployees' = businessEmployees \cup
                     {[id |-> nextEmployeeId, businessId |-> businessId,
                       userId |-> userId]}
               /\ nextEmployeeId' = nextEmployeeId + 1
               /\ resp' = Respond("addEmployee", 201)
    /\ UNCHANGED <<businesses, products, sales, saleItems, invoices, now,
                   req, authz, users, auth, fn, rd>>

AddEmployee ==
    \E actor \in Users, businessId \in BusinessIds, email \in Emails :
        AddEmployeeBy(actor, businessId, email)

\* DELETE /api/employees/:id by actor: only the owner of the row's business
RemoveEmployeeBy(actor, employeeId) ==
    /\ LET found == {e \in businessEmployees : e.id = employeeId}
       IN  IF found = {}
           THEN /\ resp' = Respond("removeEmployee", 404)
                /\ UNCHANGED businessEmployees
           ELSE \E e \in found :
                   IF NotOwner(e.businessId, actor)
                   THEN /\ resp' = Respond("removeEmployee", 403)
                        /\ UNCHANGED businessEmployees
                   ELSE /\ businessEmployees' =
                              {x \in businessEmployees : x.id # employeeId}
                        /\ resp' = Respond("removeEmployee", 204)
    /\ UNCHANGED <<businesses, products, sales, saleItems, invoices, now,
                   req, nextEmployeeId, authz, users, auth, fn, rd>>

RemoveEmployee ==
    \E actor \in Users, employeeId \in 0..MaxEmployeeRows :
        RemoveEmployeeBy(actor, employeeId)

\* a column that a request body does not carry
Absent == "absent"

\* the id that gen_random_uuid() gives the next products row
NewProductId == "p4"

\* the bodies of POST /api/products that pass the schema: a businessId (the
\* other columns are fixed here: name, price, stock)
ProductBodies ==
    [businessId : BusinessIds, name : {"n4"}, price : {1}, stock : {1}]

\* POST /api/products by actor: schema parse, authorization gate,
\* storage.createProduct
CreateProductBy(actor, body) ==
    /\ NewProductId \notin DOMAIN products
    /\ IF ~IsUserAuthorizedForBusiness(actor, body.businessId)
       THEN /\ resp' = Respond("createProduct", 403)
            /\ UNCHANGED products
       ELSE IF ~HasBusiness(body.businessId)
       THEN /\ resp' = Respond("createProduct", 400)
            /\ UNCHANGED products
       ELSE /\ products' = [p \in DOMAIN products \cup {NewProductId} |->
                              IF p = NewProductId THEN body ELSE products[p]]
            /\ resp' = Respond("createProduct", 201)
    /\ UNCHANGED <<businesses, businessEmployees, sales, saleItems, invoices,
                   now, req, nextEmployeeId, authz, users, auth, fn, rd>>

CreateProduct ==
    \E actor \in Users, body \in ProductBodies : CreateProductBy(actor, body)

\* the bodies of PATCH /api/products/:id, which the handler does not
\* validate: the columns businessId and stock, each present or not (stock
\* is the set of the values the body gives it: none or one)
ProductPatches == [businessId : BusinessIds \cup {Absent}, stock : {{}, {0}}]

\* const updateData = { ...req.body }; delete updateData.businessId
StripNothing(body) == body

StripBusinessId(body) == [body EXCEPT !.businessId = Absent]

\* db.update(products).set(data): the columns that data carries
SetProduct(row, data) ==
    [row EXCEPT
        !.businessId = IF data.businessId = Absent THEN @ ELSE data.businessId,
        !.stock = IF data.stock = {} THEN @ ELSE CHOOSE v \in data.stock : TRUE]

\* PATCH /api/products/:id by actor
UpdateProductBy(actor, productId, body) ==
    /\ IF ~HasProduct(productId)
       THEN /\ resp' = Respond("updateProduct", 404)
            /\ UNCHANGED products
       ELSE IF ~IsUserAuthorizedForBusiness(actor, products[productId].businessId)
       THEN /\ resp' = Respond("updateProduct", 403)
            /\ UNCHANGED products
       ELSE LET updateData == StripBusinessId(body)
            IN  IF updateData.businessId # Absent
                   /\ ~HasBusiness(updateData.businessId)
                THEN /\ resp' = Respond("updateProduct", 400)
                     /\ UNCHANGED products
                ELSE /\ products' = [products EXCEPT ![productId] =
                                        SetProduct(@, updateData)]
                     /\ resp' = Respond("updateProduct", 200)
    /\ UNCHANGED <<businesses, businessEmployees, sales, saleItems, invoices,
                   now, req, nextEmployeeId, authz, users, auth, fn, rd>>

UpdateProduct ==
    \E actor \in Users, productId \in ProductIds \cup {NoProductId},
       body \in ProductPatches :
        UpdateProductBy(actor, productId, body)

\* the bodies of PATCH /api/businesses/:id, which the handler does not
\* validate: the column ownerId, present or not (the columns the model
\* does not keep, such as name, are left out)
PatchOwners == {"u3"}

BusinessPatches == [ownerId : PatchOwners \cup {Absent}]

\* db.update(businesses).set(data): the columns that data carries
SetBusiness(row, data) ==
    [row EXCEPT !.ownerId = IF data.ownerId = Absent THEN @ ELSE data.ownerId]

\* PATCH /api/businesses/:id by actor: the owner may set any column; a
\* new owner must be a users row
UpdateBusinessBy(actor, businessId, body) ==
    /\ IF NotOwner(businessId, actor)
       THEN /\ resp' = Respond("updateBusiness", 403)
            /\ UNCHANGED businesses
       ELSE IF body.ownerId # Absent /\ body.ownerId \notin DOMAIN users
       THEN /\ resp' = Respond("updateBusiness", 400)
            /\ UNCHANGED businesses
       ELSE /\ businesses' = [businesses EXCEPT ![businessId] =
                                 SetBusiness(@, body)]
            /\ resp' = Respond("updateBusiness", 200)
    /\ UNCHANGED <<businessEmployees, products, sales, saleItems, invoices,
                   now, req, nextEmployeeId, authz, users, auth, fn, rd>>

UpdateBusiness ==
    \E actor \in Users, businessId \in BusinessIds, body \in BusinessPatches :
        UpdateBusinessBy(actor, businessId, body)

\* DELETE /api/businesses/:id by actor: only the owner; the foreign keys of
\* business_employees, products and sales cascade, and those of sale_items
\* and invoices cascade from sales
DeleteBusinessBy(actor, businessId) ==
    /\ IF NotOwner(businessId, actor)
       THEN /\ resp' = Respond("deleteBusiness", 403)
            /\ UNCHANGED dbVars
       ELSE LET gone == {sl \in sales : sl.businessId = businessId}
                goneIds == {sl.id : sl \in gone}
            IN  /\ businesses' = [b \in DOMAIN businesses \ {businessId} |->
                                     businesses[b]]
                /\ businessEmployees' =
                      {e \in businessEmployees : e.businessId # businessId}
                /\ products' =
                      [p \in {x \in DOMAIN products :
                                products[x].businessId # businessId} |->
                          products[p]]
                /\ sales' = sales \ gone
                /\ saleItems' = {it \in saleItems : it.saleId \notin goneIds}
                /\ invoices' = {inv \in invoices : inv.saleId \notin goneIds}
                /\ resp' = Respond("deleteBusiness", 204)
    /\ UNCHANGED <<now, req, nextEmployeeId, authz, users, auth, fn, rd>>

DeleteBusiness ==
    \E actor \in Users, businessId \in BusinessIds :
        DeleteBusinessBy(actor, businessId)

\* DELETE /api/products/:id by actor: only the owner of the product's
\* business; sale_items.product_id has no cascade, so the delete of a
\* product that a sale item names fails and the handler answers 500
DeleteProductBy(actor, productId) ==
    /\ IF ~HasProduct(productId)
       THEN /\ resp' = Respond("deleteProduct", 404)
            /\ UNCHANGED products
       ELSE IF NotOwner(products[productId].businessId, actor)
       THEN /\ resp' = Respond("deleteProduct", 403)
            /\ UNCHANGED products
       ELSE IF \E it \in saleItems : it.productId = productId
       THEN /\ resp' = Respond("deleteProduct", 500)
            /\ UNCHANGED products
       ELSE /\ products' = [p \in DOMAIN products \ {productId} |-> products[p]]
            /\ resp' = Respond("deleteProduct", 204)
    /\ UNCHANGED <<businesses, businessEmployees, sales, saleItems, invoices,
                   now, req, nextEmployeeId, authz, users, auth, fn, rd>>

DeleteProduct ==
    \E actor \in Users, productId \in ProductIds :
        DeleteProductBy(actor, productId)

\* invoiceStatusEnum
InvoiceStatuses == {"pending", "paid", "cancelled"}

\* the bodies of PATCH /api/invoices/:id after schema.parse: an optional
\* status; the schema has no paidAt key, so data.paidAt is never set
InvoicePatches == [status : InvoiceStatuses \cup {Absent}]

\* storage.getInvoice: the rows with that id
InvoicesById(invoiceId) == {inv \in invoices : inv.id = invoiceId}

\* storage.updateInvoice: updateData = { ...data }, with paidAt = new Date()
\* if data.status === "paid" && !data.paidAt; then .set(updateData)
SetInvoiceStatusOnly(row, data, t) ==
    [row EXCEPT !.status = IF data.status = Absent THEN @ ELSE data.status]

SetInvoice(row, data, t) ==
    [row EXCEPT
        !.status = IF data.status = Absent THEN @ ELSE data.status,
        !.paidAt = IF data.status = "paid" THEN t ELSE @]

\* PATCH /api/invoices/:id by actor
UpdateInvoiceBy(actor, invoiceId, body) ==
    /\ IF InvoicesById(invoiceId) = {}
       THEN /\ resp' = Respond("updateInvoice", 404)
            /\ UNCHANGED invoices
       ELSE LET existingInvoice == CHOOSE inv \in InvoicesById(invoiceId) : TRUE
                sale == CHOOSE sl \in sales : sl.id = existingInvoice.saleId
            IN  IF ~IsUserAuthorizedForBusiness(actor, sale.businessId)
                THEN /\ resp' = Respond("updateInvoice", 403)
                     /\ UNCHANGED invoices
                ELSE /\ invoices' = (invoices \ {existingInvoice})
                            \cup {SetInvoice(existingInvoice, body, now)}
                     /\ resp' = Respond("updateInvoice", 200)
    /\ UNCHANGED <<businesses, businessEmployees, products, sales, saleItems,
                   now, req, nextEmployeeId, authz, users, auth, fn, rd>>

UpdateInvoice ==
    \E actor \in Users, invoiceId \in Requests, body \in InvoicePatches :
        UpdateInvoiceBy(actor, invoiceId, body)

\* ----------------------------------------------------------- middleware

\* the Authorization header: none, one of another scheme, or "Bearer "
\* followed by a token
Schemes == {"none", "Basic", "Bearer"}

\* the tokens a client may send: two that the provider has issued and that
\* are still valid, one that is expired or forged
Tokens == {"tok_u1", "tok_u4", "tok_expired"}

\* supabase.auth.getUser(token): the user of a valid token, or an error
TokenUser(token) ==
    CASE token = "tok_u1" -> "u1"
      [] token = "tok_u4" -> "u4"
      [] OTHER -> NoUser

\* !authHeader || !authHeader.startsWith("Bearer ")
NoBearerOnlyIfMissing(scheme) == scheme = "none"

NoBearer(scheme) == scheme # "Bearer"

\* a request arrives at a route registered with isAuthenticated; whether
\* the provider answers this request is fixed here and read by getUser
AuthArrive ==
    /\ auth.pc = "idle"
    /\ \E scheme \in Schemes, token \in Tokens, providerUp \in BOOLEAN :
          auth' = [IdleAuth EXCEPT !.pc = "header", !.scheme = scheme,
                                   !.token = token, !.providerUp = providerUp]
    /\ UNCHANGED <<dbVars, now, req, nextEmployeeId, authz, resp, users, fn, rd>>

\* isAuthenticated, the header test
AuthCheckHeader ==
    /\ auth.pc = "header"
    /\ auth' = IF NoBearer(auth.scheme)
               THEN [auth EXCEPT !.pc = "done", !.status = 401]
               ELSE [auth EXCEPT !.pc = "getUser"]
    /\ UNCHANGED <<dbVars, now, req, nextEmployeeId, authz, resp, users, fn, rd>>

\* getUserFromToken: null on an error of the provider, on no user and on
\* an exception (provider unreachable); isAuthenticated answers 401 then
AuthGetUser ==
    /\ auth.pc = "getUser"
    /\ LET user == IF auth.providerUp THEN TokenUser(auth.token) ELSE NoUser
       IN  auth' = IF user = NoUser
                   THEN [auth EXCEPT !.pc = "done", !.status = 401]
                   ELSE [auth EXCEPT !.pc = "upsert", !.userId = user]
    /\ UNCHANGED <<dbVars, now, req, nextEmployeeId, authz, resp, users, fn, rd>>

\* storage.upsertUser inside its own try: insert, or update on a conflict
\* of the id; a failure (the database is down, or the e-mail is the one of
\* another row) is logged and the middleware goes on
AuthUpsert ==
    /\ auth.pc = "upsert"
    /\ \E dbUp \in BOOLEAN :
          LET id == auth.userId
              row == [email |-> ProviderEmail(id), firstName |-> "new"]
              taken == \E u \in DOMAIN users :
                          u # id /\ users[u].email = row.email
          IN  IF dbUp /\ ~taken
              THEN /\ users' = [u \in DOMAIN users \cup {id} |->
                                   IF u = id THEN row ELSE users[u]]
                   /\ auth' = [auth EXCEPT !.pc = "next", !.wrote = TRUE]
              ELSE /\ auth' = [auth EXCEPT !.pc = "next"]
                   /\ UNCHANGED users
    /\ UNCHANGED <<dbVars, now, req, nextEmployeeId, authz, resp, fn, rd>>

\* req.user is set and next() hands the request to the route handler
AuthNext ==
    /\ auth.pc = "next"
    /\ auth' = [auth EXCEPT !.pc = "handler"]
    /\ UNCHANGED <<dbVars, now, req, nextEmployeeId, authz, resp, users, fn, rd>>

\* the request is over; the next one may arrive
AuthOver ==
    /\ auth.pc \in {"done", "handler"}
    /\ auth' = IdleAuth
    /\ UNCHANGED <<dbVars, now, req, nextEmployeeId, authz, resp, users, fn, rd>>

\* a call of storage.isUserAuthorizedForBusiness and its answer
CheckAuthorization ==
    /\ \E userId \in Users, businessId \in BusinessIds :
          authz' = [userId |-> userId, businessId |-> businessId,
                    result |-> IsUserAuthorizedForBusiness(userId, businessId)]
    /\ UNCHANGED <<dbVars, now, req, nextEmployeeId, sideVars>>

Next ==
    \/ \E r \in Requests : WebSaleStart(r)
    \/ \E r \in Requests : GameSaleStart(r)
    \/ \E r \in Requests : WebValidateItem(r)
    \/ \E r \in Requests : GameValidateItem(r)
    \/ \E r \in Requests : InsertSale(r)
    \/ \E r \in Requests : InsertSaleItem(r)
    \/ \E r \in Requests : UpdateStock(r)
    \/ \E r \in Requests : InsertInvoice(r)
    \/ Tick

Spec == Init /\ [][Next]_vars

\* membership changes and authorization checks only
NextAuth ==
    \/ AddEmployee
    \/ RemoveEmployee
    \/ CheckAuthorization

SpecAuth == Init /\ [][NextAuth]_vars

\* the steps of sale request r, whichever handler it is
SaleStep(r) ==
    \/ WebSaleStart(r)
    \/ GameSaleStart(r)
    \/ WebValidateItem(r)
    \/ GameValidateItem(r)
    \/ InsertSale(r)
    \/ InsertSaleItem(r)
    \/ UpdateStock(r)
    \/ InsertInvoice(r)

\* one sale request among product and business edits
NextEdit ==
    \/ SaleStep(1)
    \/ UpdateProduct
    \/ UpdateBusiness

SpecEdit == Init /\ [][NextEdit]_vars

\* requests issued one after another: r is handled while no other request
\* is between its arrival and its response
OthersAtRest(r) ==
    \A q \in Requests \ {r} : req[q].pc \in {"idle", "done"}

NextSeq ==
    \/ \E r \in Requests : OthersAtRest(r) /\ SaleStep(r)
    \/ Tick

SpecSeq == Init /\ [][NextSeq]_vars

\* the owner-only handlers
NextOwner ==
    \/ UpdateBusiness
    \/ DeleteBusiness
    \/ DeleteProduct
    \/ AddEmployee
    \/ RemoveEmployee

SpecOwner == Init /\ [][NextOwner]_vars

\* the session-authenticated writes behind the authorization gate: one web
\* sale request, product creation and update, invoice update
NextWrite ==
    \/ WebSaleStart(1)
    \/ WebValidateItem(1)
    \/ InsertSale(1)
    \/ InsertSaleItem(1)
    \/ UpdateStock(1)
    \/ InsertInvoice(1)
    \/ CreateProduct
    \/ UpdateProduct
    \/ UpdateInvoice

SpecWrite == Init /\ [][NextWrite]_vars

\* the isAuthenticated middleware, request after request
NextIdentity ==
    \/ AuthArrive
    \/ AuthCheckHeader
    \/ AuthGetUser
    \/ AuthUpsert
    \/ AuthNext
    \/ AuthOver

SpecIdentity == Init /\ [][NextIdentity]_vars

\* one game sale request while the owners add and remove employees
NextSeller ==
    \/ GameSaleStart(1)
    \/ GameValidateItem(1)
    \/ InsertSale(1)
    \/ InsertSaleItem(1)
    \/ UpdateStock(1)
    \/ InsertInvoice(1)
    \/ AddEmployee
    \/ RemoveEmployee

SpecSeller == Init /\ [][NextSeller]_vars

\* one sale request and updates of its invoice as time passes
NextInvoice ==
    \/ SaleStep(1)
    \/ UpdateInvoice
    \/ Tick

SpecInvoice == Init /\ [][NextInvoice]_vars

\* ------------------------------------------------- sale request schema

\* a JSON number of a request body, as the fraction num/den
JsonNumbers == [num : -1..MaxQty, den : {1, 2}]

\* z.number().int().positive()
QuantityIsInteger(q) == q.num % q.den = 0

QuantityOk(q) == q.num % q.den = 0 /\ q.num > 0

\* the number a JSON integer stands for
NumberValue(q) == q.num \div q.den

\* buyerName of a body: the key left out, the empty string, or a name
BuyerNames == {Absent, "", "bob"}

\* z.string().min(1)
BuyerNameOk(name) == name # Absent /\ name # ""

\* the items arrays of at most MaxItems lines
BodyLines ==
    UNION {[1..n -> [productId : ProductIds \cup {NoProductId},
                     quantity : JsonNumbers]] : n \in 0..MaxItems}

SaleBodies == [buyerName : BuyerNames, lines : BodyLines]

\* schema.parse(req.body) of either sale handler returns, rather than throws
SchemaAccepts(body) ==
    /\ BuyerNameOk(body.buyerName)
    /\ \A k \in 1..Len(body.lines) : QuantityOk(body.lines[k].quantity)

\* POST /api/sales with this body: schema.parse, whose ZodError the catch
\* answers with 400, then the authorization gate
WebSaleParse(r) ==
    /\ req[r].pc = "idle"
    /\ \E body \in SaleBodies, userId \in Users, businessId \in BusinessIds :
          LET arrived == [req[r] EXCEPT !.path = "web", !.raw = body]
              started == [arrived EXCEPT !.userId = userId,
                                         !.businessId = businessId,
                                         !.sellerId = userId]
          IN  req' = [req EXCEPT ![r] =
                 IF ~SchemaAccepts(body)
                 THEN [arrived EXCEPT !.pc = "done", !.status = 400,
                                      !.reason = "failed"]
                 ELSE IF IsUserAuthorizedForBusiness(userId, businessId)
                 THEN [started EXCEPT !.pc = "validate"]
                 ELSE [started EXCEPT !.pc = "done", !.status = 403,
                                      !.reason = "forbidden"]]
    /\ UNCHANGED <<dbVars, now, nextEmployeeId, authz, sideVars>>

\* POST /api/game/sales with this body: schema.parse, API key lookup,
\* seller resolution
GameSaleParse(r) ==
    /\ req[r].pc = "idle"
    /\ \E body \in SaleBodies, apiKey \in ApiKeys \cup {BadApiKey},
          sellerId \in Users \cup {NoUser} :
          LET arrived == [req[r] EXCEPT !.path = "game", !.raw = body]
              found == BusinessesByApiKey(apiKey)
          IN  IF ~SchemaAccepts(body)
              THEN req' = [req EXCEPT ![r] =
                      [arrived EXCEPT !.pc = "done", !.status = 400,
                                      !.reason = "failed"]]
              ELSE IF found = {}
              THEN req' = [req EXCEPT ![r] =
                      [arrived EXCEPT !.apiKey = apiKey, !.pc = "done",
                                      !.status = 401, !.reason = "apikey"]]
              ELSE \E b \in found :
                      req' = [req EXCEPT ![r] =
                         [arrived EXCEPT
                            !.apiKey = apiKey,
                            !.pc = "validate",
                            !.businessId = b,
                            !.sellerId = ResolveSeller(sellerId, b)]]
    /\ UNCHANGED <<dbVars, now, nextEmployeeId, authz, sideVars>>

\* for (const item of data.items): one iteration, on the next parsed line
ParsedValidateItem(r) ==
    /\ req[r].pc = "validate"
    /\ Len(req[r].items) < Len(req[r].raw.lines)
    /\ LET line == req[r].raw.lines[Len(req[r].items) + 1]
       IN  req' = [req EXCEPT ![r] =
              ValidateItem(r, line.productId, NumberValue(line.quantity))]
    /\ UNCHANGED <<dbVars, now, nextEmployeeId, authz, sideVars>>

\* storage.createSale is called when the loop has gone through the lines
ParsedInsertSale(r) ==
    /\ Len(req[r].items) = Len(req[r].raw.lines)
    /\ InsertSale(r)

\* one sale request with any body, through either entry point
NextSchema ==
    \/ WebSaleParse(1)
    \/ GameSaleParse(1)
    \/ ParsedValidateItem(1)
    \/ ParsedInsertSale(1)
    \/ InsertSaleItem(1)
    \/ UpdateStock(1)
    \/ InsertInvoice(1)

SpecSchema == Init /\ [][NextSchema]_vars

\* ---------------------------------------------------- serverless handler

\* everything but the serverless process
appVars ==
    <<dbVars, now, req, nextEmployeeId, authz, resp, users, auth, rd>>

\* the platform loads one of the forms of the handler module
Deploy(v) ==
    /\ fn.variant = "none"
    /\ fn' = [fn EXCEPT !.variant = v]
    /\ UNCHANGED appVars

\* appPromise = initializeApp(): one more invocation, its promise pending
InitializeApp(f, p) ==
    [p EXCEPT !.inits = Append(@, "pending"),
              !.appPromise = Len(p.inits) + 1,
              !.h[f].pc = "await",
              !.h[f].promise = Len(p.inits) + 1]

\* a request enters the handler and runs to its first await
FnEnter(f) ==
    /\ fn.variant # "none"
    /\ fn.h[f].pc = "idle"
    /\ LET late == \E k \in 1..Len(fn.inits) : fn.inits[k] = "rejected"
           p == [fn EXCEPT !.h[f].late = late]
       IN  fn' = IF p.appPromise # NoPromise
                    THEN [p EXCEPT !.h[f].pc = "await",
                                   !.h[f].promise = p.appPromise]
                 ELSE IF p.variant = "dynamic"
                    THEN [p EXCEPT !.h[f].pc = "import"]
                 ELSE InitializeApp(f, p)
    /\ UNCHANGED appVars

\* await import('../server/app') resolves: the assignment follows, with no
\* second test of appPromise
FnImported(f) ==
    /\ fn.h[f].pc = "import"
    /\ fn' = InitializeApp(f, fn)
    /\ UNCHANGED appVars

\* the promise of one initializeApp() call fulfils or rejects
InitSettle ==
    \E k \in 1..Len(fn.inits), o \in {"fulfilled", "rejected"} :
        /\ fn.inits[k] = "pending"
        /\ fn' = [fn EXCEPT !.inits[k] = o]
        /\ UNCHANGED appVars

\* const { app } = await appPromise; return app(req, res), or the catch
FnResume(f) ==
    /\ fn.h[f].pc = "await"
    /\ fn.inits[fn.h[f].promise] # "pending"
    /\ fn' = [fn EXCEPT !.h[f].pc = "done",
                        !.h[f].outcome =
                            IF fn.inits[fn.h[f].promise] = "fulfilled"
                               THEN "app"
                            ELSE IF fn.variant = "static"
                               THEN "unhandled"
                            ELSE "500"]
    /\ UNCHANGED appVars

\* the response is out; the same slot serves a later request
FnOver(f) ==
    /\ fn.h[f].pc = "done"
    /\ fn' = [fn EXCEPT !.h[f] = IdleFn]
    /\ UNCHANGED appVars

NextServerless ==
    \/ \E v \in Variants : Deploy(v)
    \/ \E f \in FnRequests : FnEnter(f)
    \/ \E f \in FnRequests : FnImported(f)
    \/ InitSettle
    \/ \E f \in FnRequests : FnResume(f)
    \/ \E f \in FnRequests : FnOver(f)

SpecServerless == Init /\ [][NextServerless]_vars

\* ------------------------------------------------------- read endpoints

\* getLowStockProducts(userId, threshold = 5)
LowStockThreshold == 5

\* a row as a response carries it: its table, its key, and the business it
\* belongs to (for an invoice, the business of its sale)
Entity(kind, businessId, row) ==
    [kind |-> kind, businessId |-> businessId, row |-> row]

\* the id of a sales, invoices or business_employees row, a varchar
RowKey(id) == Base36Digits[id + 1]

\* storage.getBusinesses, the ids: the businesses the user owns and those
\* of the user's business_employees rows
GetBusinesses(userId) ==
    {b \in DOMAIN businesses : businesses[b].ownerId = userId}
        \cup {e.businessId : e \in {x \in businessEmployees :
                                       /\ x.userId = userId
                                       /\ HasBusiness(x.businessId)}}

\* all.filter((x) => businessIds.includes(x.businessId)) left out
IncludedInAny(rows, businessIds) == rows

\* all.filter((x) => businessIds.includes(x.businessId))
IncludedIn(rows, businessIds) ==
    {e \in rows : e.businessId \in businessIds}

ProductRows ==
    {Entity("product", products[p].businessId, p) : p \in DOMAIN products}

\* where(lte(products.stock, threshold))
LowStockRows ==
    {e \in ProductRows : products[e.row].stock <= LowStockThreshold}

EmployeeEntities ==
    {Entity("employee", e.businessId, RowKey(e.id)) : e \in businessEmployees}

\* a sale with: { items: { with: { product: true } }, invoice: true }
SaleWithRelations(s) ==
    {Entity("sale", s.businessId, RowKey(s.id))}
        \cup {Entity("product", products[it.productId].businessId,
                     it.productId) :
                 it \in {x \in saleItems :
                            x.saleId = s.id /\ HasProduct(x.productId)}}
        \cup {Entity("invoice", s.businessId, RowKey(inv.id)) :
                 inv \in {x \in invoices : x.saleId = s.id}}

\* storage.getSales once getBusinesses has answered
GetSales(businessIds) ==
    UNION {SaleWithRelations(s) : s \in IncludedIn(sales, businessIds)}

\* an invoice with: { sale: ... }; without a sale row it has no business
InvoiceWithSale(inv) ==
    LET its == {s \in sales : s.id = inv.saleId}
    IN  IF its = {}
        THEN {Entity("invoice", "none", RowKey(inv.id))}
        ELSE UNION {{Entity("invoice", s.businessId, RowKey(inv.id)),
                     Entity("sale", s.businessId, RowKey(s.id))} :
                       s \in its}

\* storage.getInvoices: the invoices of the sales that getSales returns,
\* each with its sale
GetInvoices(businessIds) ==
    LET saleIds == {s.id : s \in IncludedIn(sales, businessIds)}
    IN  UNION {InvoiceWithSale(inv) :
                  inv \in {x \in invoices : x.saleId \in saleIds}}

\* storage.getBusiness: the row with its employees and its products
BusinessWithRelations(b) ==
    IF ~HasBusiness(b) THEN {}
    ELSE {Entity("business", b, b)}
            \cup {e \in EmployeeEntities : e.businessId = b}
            \cup {e \in ProductRows : e.businessId = b}

\* the listing a handler sends once it has the user's businessIds
ListRows(route, businessIds) ==
    CASE route = "products" -> IncludedIn(ProductRows, businessIds)
      [] route = "lowStock" -> IncludedIn(LowStockRows, businessIds)
      [] route = "sales" -> GetSales(businessIds)
      [] route = "invoices" -> GetInvoices(businessIds)
      [] route = "employees" -> IncludedIn(EmployeeEntities, businessIds)
      [] OTHER -> {}

\* GET /api/businesses, /api/products (also ?lowStock=true), /api/sales,
\* /api/invoices, /api/employees, /api/dashboard/stats
ListRoutes ==
    {"businesses", "products", "lowStock", "sales", "invoices", "employees",
     "stats"}

\* GET /api/businesses/:id and /api/products?businessId=: the gate first
GateFirstRoutes == {"business", "productsOf"}

\* GET /api/products/:id, /api/sales/:id, /api/invoices/:id: the row first
FetchFirstRoutes == {"product", "sale", "invoice"}

ReadRoutes == ListRoutes \cup GateFirstRoutes \cup FetchFirstRoutes

\* req.params.id or req.query.businessId; 0 and NoProductId name no row
Targets(route) ==
    CASE route \in GateFirstRoutes -> BusinessIds
      [] route = "product" -> ProductIds \cup {NoProductId}
      [] route \in {"sale", "invoice"} -> Requests \cup {0}
      [] OTHER -> {"none"}

\* storage.getProduct, getSale, getInvoice: the row and what comes with it
Fetch(route, id) ==
    CASE route = "product" ->
            {e \in ProductRows : e.row = id}
      [] route = "sale" ->
            UNION {SaleWithRelations(s) : s \in {x \in sales : x.id = id}}
      [] OTHER ->
            UNION {InvoiceWithSale(inv) : inv \in InvoicesById(id)}

ReadReply(code) == [rd EXCEPT !.pc = "done", !.status = code]

\* a GET request of a user arrives at its handler
ReadArrive ==
    /\ rd.pc = "idle"
    /\ \E userId \in Users, route \in ReadRoutes :
          \E target \in Targets(route) :
             rd' = [IdleRead EXCEPT !.pc = "first", !.route = route,
                                    !.userId = userId, !.target = target]
    /\ UNCHANGED <<dbVars, now, req, nextEmployeeId, authz, resp, users,
                   auth, fn>>

\* the handler's first storage call: getBusinesses of a listing, the gate
\* of GET /api/businesses/:id and of ?businessId=, the row of a by-id read
ReadFirst ==
    /\ rd.pc = "first"
    /\ rd' =
         IF rd.route \in ListRoutes
         THEN LET businessIds == GetBusinesses(rd.userId)
              IN  IF rd.route = "businesses"
                     THEN [ReadReply(200) EXCEPT
                             !.granted = businessIds,
                             !.view = UNION {BusinessWithRelations(b) :
                                                b \in businessIds}]
                  ELSE IF businessIds = {}
                     THEN ReadReply(200)
                  ELSE [rd EXCEPT !.pc = "second", !.granted = businessIds]
         ELSE IF rd.route \in GateFirstRoutes
         THEN IF ~IsUserAuthorizedForBusiness(rd.userId, rd.target)
                 THEN ReadReply(403)
                 ELSE [rd EXCEPT !.pc = "second", !.granted = {rd.target}]
         ELSE LET found == Fetch(rd.route, rd.target)
              IN  IF found = {}
                     THEN ReadReply(404)
                     ELSE [rd EXCEPT !.pc = "second", !.held = found]
    /\ UNCHANGED <<dbVars, now, req, nextEmployeeId, authz, resp, users,
                   auth, fn>>

\* the second storage call: the rows of a listing filtered by businessIds,
\* the rows behind the gate, the gate of a by-id read (which GET
\* /api/invoices/:id skips for an invoice that came without its sale)
ReadSecond ==
    /\ rd.pc = "second"
    /\ rd' =
         IF rd.route = "stats"
         THEN [rd EXCEPT
                 !.pc = "third",
                 !.view = {Entity("sale", s.businessId, RowKey(s.id)) :
                              s \in IncludedIn(sales, rd.granted)}
                          \cup {Entity("business", b, b) : b \in rd.granted}]
         ELSE IF rd.route \in ListRoutes
         THEN [ReadReply(200) EXCEPT !.view = ListRows(rd.route, rd.granted)]
         ELSE IF rd.route = "business"
         THEN IF ~HasBusiness(rd.target)
                 THEN ReadReply(404)
                 ELSE [ReadReply(200) EXCEPT
                         !.view = BusinessWithRelations(rd.target)]
         ELSE IF rd.route = "productsOf"
         THEN [ReadReply(200) EXCEPT
                 !.view = {e \in ProductRows : e.businessId = rd.target}]
         ELSE LET key == IF rd.route = "product" THEN rd.target
                                                  ELSE RowKey(rd.target)
                  main == CHOOSE e \in rd.held :
                             e.kind = rd.route /\ e.row = key
              IN  IF main.businessId = "none"
                     THEN [ReadReply(200) EXCEPT !.view = rd.held]
                  ELSE IF ~IsUserAuthorizedForBusiness(rd.userId,
                                                       main.businessId)
                     THEN ReadReply(403)
                  ELSE [ReadReply(200) EXCEPT
                          !.granted = {main.businessId},
                          !.view = rd.held]
    /\ UNCHANGED <<dbVars, now, req, nextEmployeeId, authz, resp, users,
                   auth, fn>>

\* getDashboardStats, last part: getLowStockProducts reads the user's
\* businesses again and counts their low-stock products
ReadThird ==
    /\ rd.pc = "third"
    /\ LET businessIds == GetBusinesses(rd.userId)
       IN  rd' = [ReadReply(200) EXCEPT
                    !.granted = @ \cup businessIds,
                    !.view = @ \cup IncludedIn(LowStockRows, businessIds)]
    /\ UNCHANGED <<dbVars, now, req, nextEmployeeId, authz, resp, users,
                   auth, fn>>

\* the response is out; the next GET request may arrive
ReadOver ==
    /\ rd.pc = "done"
    /\ rd' = IdleRead
    /\ UNCHANGED <<dbVars, now, req, nextEmployeeId, authz, resp, users,
                   auth, fn>>

\* the database after a web sale of p1 in b1 and a game sale of p3 in b2
InitRead ==
    /\ businesses = InitialBusinesses
    /\ businessEmployees = {[id |-> 0, businessId |-> "b2", userId |-> "u3"]}
    /\ products = [InitialProducts EXCEPT !["p1"].stock = 1,
                                          !["p3"].stock = 0]
    /\ sales = {[id |-> 1, businessId |-> "b1", sellerId |-> "u1",
                 totalAmount |-> 1, source |-> "web"],
                [id |-> 2, businessId |-> "b2", sellerId |-> "u2",
                 totalAmount |-> 1, source |-> "game"]}
    /\ saleItems = {[saleId |-> 1, line |-> 1, productId |-> "p1",
                     productName |-> "n1", quantity |-> 1, unitPrice |-> 1,
                     totalPrice |-> 1],
                    [saleId |-> 2, line |-> 1, productId |-> "p3",
                     productName |-> "n3", quantity |-> 1, unitPrice |-> 1,
                     totalPrice |-> 1]}
    /\ invoices = {[id |-> 1, saleId |-> 1,
                    invoiceNumber |-> InvoiceNumber(ClockStart),
                    status |-> "pending", paidAt |-> 0],
                   [id |-> 2, saleId |-> 2,
                    invoiceNumber |-> InvoiceNumber(ClockStart + 1),
                    status |-> "pending", paidAt |-> 0]}
    /\ now = ClockStart + 1
    /\ req = <<[IdleRequest EXCEPT
                  !.pc = "done", !.path = "web", !.status = 201,
                  !.reason = "created", !.userId = "u1",
                  !.businessId = "b1", !.sellerId = "u1",
                  !.items = <<[productId |-> "p1", quantity |-> 1,
                               productName |-> "client", unitPrice |-> 0,
                               totalPrice |-> 0]>>,
                  !.totalAmount = 1, !.i = 2, !.dec["p1"] = 1],
               [IdleRequest EXCEPT
                  !.pc = "done", !.path = "game", !.status = 201,
                  !.reason = "created", !.apiKey = "rp_b2",
                  !.businessId = "b2", !.sellerId = "u2",
                  !.items = <<[productId |-> "p3", quantity |-> 1,
                               productName |-> "n3", unitPrice |-> 1,
                               totalPrice |-> 1]>>,
                  !.totalAmount = 1, !.i = 2, !.dec["p3"] = 1]>>
    /\ nextEmployeeId = 1
    /\ authz = [userId |-> NoUser, businessId |-> "none", result |-> FALSE]
    /\ resp = [route |-> "none", status |-> 0]
    /\ users = InitialUsers
    /\ auth = IdleAuth
    /\ fn = ColdProcess
    /\ rd = IdleRead

\* GET requests one at a time while the owners add and remove employees
NextRead ==
    \/ ReadArrive
    \/ ReadFirst
    \/ ReadSecond
    \/ ReadThird
    \/ ReadOver
    \/ AddEmployee
    \/ RemoveEmployee

SpecRead == InitRead /\ [][NextRead]_vars

\* ------------------------------------------------------------ properties

SaleRows(r) == {s \in sales : s.id = r}
ItemRows(r) == {it \in saleItems : it.saleId = r}
InvoiceRows(r) == {inv \in invoices : inv.saleId = r}

\* request r has written nothing: no row of its own, no stock update
NoWrites(r) ==
    /\ SaleRows(r) = {}
    /\ ItemRows(r) = {}
    /\ InvoiceRows(r) = {}
    /\ \A p \in ProductIds : req[r].dec[p] = 0

Created(r) == req[r].pc = "done" /\ req[r].status = 201

\* the stock the products table starts with
InitialStock(p) == InitialProducts[p].stock

RECURSIVE SumTotalPrice(_)
SumTotalPrice(rows) ==
    IF rows = {} THEN 0
    ELSE LET row == CHOOSE x \in rows : TRUE
         IN  row.totalPrice + SumTotalPrice(rows \ {row})

RECURSIVE SumServerPrice(_)
SumServerPrice(rows) ==
    IF rows = {} THEN 0
    ELSE LET row == CHOOSE x \in rows : TRUE
         IN  row.quantity * products[row.productId].price
                + SumServerPrice(rows \ {row})

RECURSIVE SumDec(_, _)
SumDec(rs, p) ==
    IF rs = {} THEN 0
    ELSE LET r == CHOOSE x \in rs : TRUE
         IN  req[r].dec[p] + SumDec(rs \ {r}, p)

\* the quantities requested for product p on the first n lines of r
RECURSIVE RequestedQty(_, _, _)
RequestedQty(r, p, n) ==
    IF n = 0 THEN 0
    ELSE (IF req[r].items[n].productId = p THEN req[r].items[n].quantity ELSE 0)
            + RequestedQty(r, p, n - 1)

DistinctLines(r) ==
    \A j, k \in 1..Len(req[r].items) :
        req[r].items[j].productId = req[r].items[k].productId => j = k

\* C1: a request whose validation loop met a product with less stock than
\* the line asks for is answered 400 and has written nothing: no sale,
\* sale-item or invoice row of its own and no stock update; and while every
\* request so far was turned away, the products table is as it started.
C1_ShortStockRejectedNoWrites ==
    /\ \A r \in Requests :
          req[r].sawShort =>
             /\ req[r].pc = "done"
             /\ req[r].status = 400
             /\ NoWrites(r)
    /\ (\A r \in Requests : req[r].pc = "idle" \/ req[r].sawShort) =>
          /\ sales = {} /\ saleItems = {} /\ invoices = {}
          /\ \A p \in ProductIds : products[p].stock = InitialStock(p)

C1_Witness ==
    \E r, q \in Requests :
        /\ r # q
        /\ req[r].path = "web" /\ req[r].sawShort /\ req[r].reason = "stock"
        /\ req[q].path = "game" /\ req[q].sawShort /\ req[q].reason = "stock"

\* C2: (the claim) no interleaving of sale requests drives a product's
\* stock below zero.  Stated for requests whose lines name distinct
\* products, so that only the race between requests can violate it.
C2_StockNeverNegative ==
    (\A r \in Requests : DistinctLines(r)) =>
        \A p \in ProductIds : products[p].stock >= 0

\* C3: (the claim) a createSale that failed partway leaves none of its
\* writes behind.  Stated for the requests that have at least one line.
C3_FailedSaleLeavesNothing ==
    \A r \in Requests :
        (req[r].pc = "done" /\ req[r].reason = "failed"
            /\ Len(req[r].items) > 0) => NoWrites(r)

\* C4: (the claim) for every created sale, totalAmount is the sum of the
\* lines' totalPrice and each line's totalPrice is quantity * unitPrice.
C4_TotalsConsistent ==
    \A r \in Requests :
        Created(r) =>
           /\ \A s \in SaleRows(r) : s.totalAmount = SumTotalPrice(ItemRows(r))
           /\ \A it \in ItemRows(r) : it.totalPrice = it.quantity * it.unitPrice

\* C5: (the claim) for every created sale, each line's unit price and name
\* are the product's, and the total is computed from the product prices.
C5_ServerSidePrices ==
    \A r \in Requests :
        Created(r) =>
           /\ \A it \in ItemRows(r) :
                 /\ it.unitPrice = products[it.productId].price
                 /\ it.productName = products[it.productId].name
           /\ \A s \in SaleRows(r) : s.totalAmount = SumServerPrice(ItemRows(r))

\* C6: (the claim) a created sale has lowered the stock of each line's
\* product by that line's quantity, and no other product's stock.  Stated
\* for the sales that asked for no more than the product had in stock.
C6_StockLoweredByLineQuantity ==
    \A r \in Requests :
        (Created(r) /\ \A p \in ProductIds : products[p].stock >= 0) =>
           /\ \A k \in 1..Len(req[r].items) :
                 req[r].dec[req[r].items[k].productId] = req[r].items[k].quantity
           /\ \A p \in ProductIds :
                 (\A k \in 1..Len(req[r].items) : req[r].items[k].productId # p)
                    => req[r].dec[p] = 0

\* C6 (amended): a created sale has lowered each product's stock by the sum
\* of the quantities of its lines that name the product (nothing for a
\* product no line names), and every product's stock is its initial stock
\* less what the sales have taken from it.
C6_StockLoweredBySumOfLines ==
    /\ \A r \in Requests :
          Created(r) =>
             \A p \in ProductIds :
                req[r].dec[p] = RequestedQty(r, p, Len(req[r].items))
    /\ \A p \in ProductIds :
          products[p].stock = InitialStock(p) - SumDec(Requests, p)

C6_Witness ==
    \E r \in Requests :
        /\ Created(r)
        /\ Len(req[r].items) = 2
        /\ req[r].items[1].productId # req[r].items[2].productId
        /\ products[req[r].items[1].productId].stock
              = InitialStock(req[r].items[1].productId) - req[r].items[1].quantity

\* C7: every created sale has exactly one invoice row, that row is pending,
\* and no two invoice rows carry the same invoice number.
C7_OnePendingInvoiceUniqueNumber ==
    /\ \A r \in Requests :
          Created(r) =>
             /\ Cardinality(InvoiceRows(r)) = 1
             /\ \A inv \in InvoiceRows(r) : inv.status = "pending"
    /\ \A a, b \in invoices : a.invoiceNumber = b.invoiceNumber => a = b

C7_Witness ==
    /\ \A r \in Requests : Created(r)
    /\ Cardinality(invoices) = Cardinality(Requests)
    /\ \E inv \in invoices : Len(inv.invoiceNumber) = 6

\* C8: (the claim) every sale row has exactly one invoice row, also after a
\* sale creation that failed at the invoice step.  Stated for the sales
\* whose createSale has returned or thrown.
C8_EverySaleHasOneInvoice ==
    \A s \in sales :
        req[s.id].pc = "done" => Cardinality(InvoiceRows(s.id)) = 1

\* C9: isUserAuthorizedForBusiness(user, business) answers true exactly when
\* the user owns the business or has a business_employees row for it.
C9_AuthorizedIffOwnerOrEmployee ==
    \A u \in Users, b \in BusinessIds :
        IsUserAuthorizedForBusiness(u, b) <=>
           \/ businesses[b].ownerId = u
           \/ \E e \in businessEmployees : e.businessId = b /\ e.userId = u

C9_Witness ==
    /\ authz.userId \in Users
    /\ ~authz.result
    /\ \E e \in businessEmployees :
          e.userId = authz.userId /\ e.businessId # authz.businessId
    /\ \E u \in Users, b \in BusinessIds :
          /\ businesses[b].ownerId # u
          /\ IsUserAuthorizedForBusiness(u, b)
          /\ b = "b1"

\* C10: a request whose validation loop met a product of another business
\* than the one it targets is answered 400 and has written nothing.
C10_ForeignProductRejectedNoWrites ==
    \A r \in Requests :
        req[r].sawForeign =>
           /\ req[r].pc = "done"
           /\ req[r].status = 400
           /\ NoWrites(r)

C10_Witness ==
    \E r, q \in Requests :
        /\ r # q
        /\ req[r].path = "web" /\ req[r].sawForeign /\ req[r].reason = "foreign"
        /\ req[q].path = "game" /\ req[q].sawForeign /\ req[q].reason = "foreign"

\* C11: the product of every sale-item row belongs to the business of the
\* row's sale, whatever sale creations, product updates and business
\* updates have happened.
C11_ItemProductInSaleBusiness ==
    \A it \in saleItems : \A s \in sales :
        s.id = it.saleId =>
           /\ HasProduct(it.productId)
           /\ products[it.productId].businessId = s.businessId

C11_Witness ==
    /\ saleItems # {}
    /\ resp = Respond("updateProduct", 200)
    /\ \E it \in saleItems : products[it.productId].stock = 0
    /\ \E b \in DOMAIN businesses :
          businesses[b].ownerId # InitialBusinesses[b].ownerId

\* C12: a game sale request whose API key matches no business is answered
\* 401, and no step of it changes a row of any table.
C12_BadApiKeyRejectedNoRowChanged ==
    [][\A r \in Requests :
          (req'[r].path = "game" /\ req'[r].apiKey = BadApiKey) =>
             /\ req'[r].pc = "done"
             /\ req'[r].status = 401
             /\ NoWrites(r)'
             /\ (req'[r] # req[r] => UNCHANGED <<dbVars, users>>)]_vars

C12_Witness ==
    \E r \in Requests :
        /\ req[r].path = "game"
        /\ req[r].apiKey = BadApiKey
        /\ req[r].pc = "done"
        /\ req[r].status = 401
        /\ \E q \in Requests : q # r /\ Created(q)

\* C18: a sale or an invoice row exists only for a request whose items list
\* holds at least one line, on either entry point.
C18_EmptyItemsCreateNothing ==
    \A r \in Requests :
        (SaleRows(r) # {} \/ InvoiceRows(r) # {}) => Len(req[r].items) > 0

\* the units of product p sold by the created sales among the requests rs
RECURSIVE SoldBy(_, _)
SoldBy(rs, p) ==
    IF rs = {} THEN 0
    ELSE LET r == CHOOSE x \in rs : TRUE
         IN  (IF Created(r) THEN req[r].dec[p] ELSE 0) + SoldBy(rs \ {r}, p)

\* C13: when sale requests are issued one after another, a request is
\* answered 201 only if the quantity of each of its lines is at most the
\* stock that the earlier successful sales left of the line's product, and
\* the step that rejects a request for insufficient stock answers 400 and
\* leaves every product's stock as it was.
C13_SequentialSalesRespectStockLeft ==
    [][\A r \in Requests :
          /\ (~Created(r) /\ Created(r)') =>
                \A i \in 1..Len(req'[r].items) :
                    req'[r].items[i].quantity
                       <= InitialStock(req'[r].items[i].productId)
                            - SoldBy(Requests \ {r}, req'[r].items[i].productId)
          /\ (req[r].reason # "stock" /\ req'[r].reason = "stock") =>
                /\ req'[r].status = 400
                /\ NoWrites(r)'
                /\ UNCHANGED dbVars]_vars

C13_Witness ==
    \E r, q \in Requests :
        /\ Created(r)
        /\ Len(req[r].items) = 1
        /\ req[r].items[1].productId = "p1"
        /\ req[q].pc = "done"
        /\ req[q].reason = "stock"
        /\ Len(req[q].items) = 1
        /\ req[q].items[1].productId = "p1"
        /\ req[q].items[1].quantity > products["p1"].stock
        /\ products["p1"].stock = InitialStock("p1") - req[r].items[1].quantity
        /\ products["p1"].stock > 0
        /\ \E inv \in invoices : inv.saleId = r /\ inv.status = "pending"
        /\ Cardinality(invoices) = 1

\* C14: a PATCH that marks an invoice "paid" leaves it with a non-null
\* paid timestamp, and if the invoice already had one, with that same
\* timestamp.
C14_PaidAtStampedOnce ==
    [][\A actor \in Users, invoiceId \in Requests :
          (UpdateInvoiceBy(actor, invoiceId, [status |-> "paid"])
             /\ resp'.status = 200) =>
              \A old \in InvoicesById(invoiceId) :
                 \A new \in invoices' :
                    new.id = invoiceId =>
                       /\ new.status = "paid"
                       /\ new.paidAt # 0
                       /\ (old.paidAt # 0 => new.paidAt = old.paidAt)]_vars

\* C15: the owner of a business row is the one it was created with,
\* whatever requests have been served.
C15_OwnerNeverChanges ==
    \A b \in DOMAIN businesses :
        businesses[b].ownerId = InitialBusinesses[b].ownerId

\* user actor is not the owner of the existing business b
IsNotOwnerOf(actor, b) ==
    b \in DOMAIN businesses /\ businesses[b].ownerId # actor

\* the response is 403 and no table changes
Forbidden403 == resp'.status = 403 /\ UNCHANGED <<dbVars, users>>

\* C20: an owner-only request (update business, delete business, delete
\* product, add employee, remove employee) by a user who is not the owner
\* of the business concerned, employees included, is answered 403 and
\* changes no table: a step that is not such an answer is no step of
\* such a request.
C20_OwnerOnlyOperations ==
    [][\/ Forbidden403
       \/ /\ \A actor \in Users, b \in BusinessIds :
                IsNotOwnerOf(actor, b) =>
                   /\ \A body \in BusinessPatches :
                         ~UpdateBusinessBy(actor, b, body)
                   /\ ~DeleteBusinessBy(actor, b)
                   /\ \A email \in Emails : ~AddEmployeeBy(actor, b, email)
          /\ \A actor \in Users, productId \in DOMAIN products :
                IsNotOwnerOf(actor, products[productId].businessId) =>
                   ~DeleteProductBy(actor, productId)
          /\ \A actor \in Users, e \in businessEmployees :
                IsNotOwnerOf(actor, e.businessId) =>
                   ~RemoveEmployeeBy(actor, e.id)]_vars

C20_Witness ==
    /\ "b1" \notin DOMAIN businesses
    /\ "p3" \notin DOMAIN products
    /\ resp = Respond("removeEmployee", 403)
    /\ \E e \in businessEmployees : e.businessId = "b2" /\ e.userId = "u1"
    /\ businesses["b2"].ownerId = "u3"

\* user actor is neither the owner nor an employee of the existing
\* business b
IsStrangerTo(actor, b) ==
    /\ b \in DOMAIN businesses
    /\ businesses[b].ownerId # actor
    /\ \A e \in businessEmployees : ~(e.businessId = b /\ e.userId = actor)

\* the business of the sale of an invoice row
InvoiceBusiness(inv) ==
    (CHOOSE sl \in sales : sl.id = inv.saleId).businessId

\* C16: a session-authenticated write (create product, update product,
\* create sale, update invoice) by a user who is neither the owner nor an
\* employee of the business it targets is answered 403 and changes no
\* business, product, sale, sale-item, invoice or membership row: a step
\* that is not such an answer is no step of such a request.
C16_StrangerWritesForbidden ==
    [][/\ \/ Forbidden403
          \/ /\ resp'.route = "createProduct" =>
                   \A actor \in Users, body \in ProductBodies :
                      IsStrangerTo(actor, body.businessId) =>
                         ~CreateProductBy(actor, body)
             /\ resp'.route = "updateProduct" =>
                   \A actor \in Users, productId \in DOMAIN products :
                      IsStrangerTo(actor, products[productId].businessId) =>
                         \A body \in ProductPatches :
                            ~UpdateProductBy(actor, productId, body)
             /\ resp'.route = "updateInvoice" =>
                   \A actor \in Users, inv \in invoices :
                      IsStrangerTo(actor, InvoiceBusiness(inv)) =>
                         \A body \in InvoicePatches :
                            ~UpdateInvoiceBy(actor, inv.id, body)
       /\ \A r \in Requests :
             (/\ req[r].pc = "idle"
              /\ req'[r].path = "web"
              /\ IsStrangerTo(req'[r].userId, req'[r].businessId)) =>
                 /\ req'[r].pc = "done"
                 /\ req'[r].status = 403
                 /\ UNCHANGED <<dbVars, users>>
       /\ \A r \in Requests :
             (req[r].path = "web" /\ req[r].status = 403) =>
                 (req'[r] = req[r] /\ NoWrites(r))]_vars

C16_Witness ==
    /\ resp = Respond("updateInvoice", 403)
    /\ NewProductId \in DOMAIN products
    /\ \E inv \in invoices : inv.status = "paid"
    /\ \E p \in ProductIds : products[p].stock = 0

\* the request in the middleware has no header, a header of another
\* scheme, an expired or forged token, or meets a provider that fails
BadCredential(a) ==
    /\ a.pc # "idle"
    /\ \/ a.scheme # "Bearer"
       \/ a.token = "tok_expired"
       \/ ~a.providerUp

\* C17: a request with a missing, malformed or invalid bearer credential,
\* or one for which the identity provider fails, never reaches the user
\* upsert or the route handler, ends with 401, and no step of it writes a
\* row, the users table included.
C17_BadCredentialRejectedNoWrite ==
    [][BadCredential(auth') =>
          /\ auth'.pc \in {"header", "getUser", "done"}
          /\ (auth'.pc = "done" => auth'.status = 401)
          /\ ~auth'.wrote
          /\ UNCHANGED <<users, dbVars>>]_vars

C17_Witness ==
    /\ BadCredential(auth)
    /\ auth.scheme = "Bearer"
    /\ auth.pc = "done"
    /\ auth.status = 401
    /\ "u4" \in DOMAIN users
    /\ users["u1"].firstName = "new"

\* user u is the owner or an employee of business b
IsOwnerOrEmployee(u, b) ==
    \/ (b \in DOMAIN businesses /\ businesses[b].ownerId = u)
    \/ \E e \in businessEmployees : e.businessId = b /\ e.userId = u

\* the seller the game path is to store for a request with this sellerId
\* on business b: the sellerId if that user is owner or employee of b, the
\* owner of b if there is no sellerId or it is someone else's
ExpectedSeller(sellerId, b) ==
    IF sellerId # NoUser /\ IsOwnerOrEmployee(sellerId, b)
    THEN sellerId
    ELSE businesses[b].ownerId

\* the step on which game request r arrives resolves the seller by the
\* rule, the request keeps that seller, and its sale row carries it
SellerResolvedByRule ==
    \A r \in Requests :
        /\ (req[r].pc = "idle" /\ req'[r].path = "game") =>
              \A apiKey \in ApiKeys, sellerId \in Users \cup {NoUser} :
                 GameSaleBegin(r, apiKey, sellerId) =>
                    \A b \in DOMAIN businesses :
                       businesses[b].apiKey = apiKey =>
                          /\ req'[r].businessId = b
                          /\ req'[r].sellerId = ExpectedSeller(sellerId, b)
        /\ (req[r].path = "game" /\ req[r].pc # "done") =>
              req'[r].sellerId = req[r].sellerId
        /\ req'[r].path = "game" =>
              \A sl \in SaleRows(r)' :
                 sl.sellerId = req'[r].sellerId
                    /\ sl.businessId = req'[r].businessId

\* C19 as stated: the game path stores the seller by the rule, and the
\* seller of a game sale is the owner or an employee of the sale's business
\* when the sale row is created.
C19_SellerOwnerOrEmployeeAtCreation ==
    [][/\ SellerResolvedByRule
       /\ \A r \in Requests :
             (req'[r].path = "game" /\ SaleRows(r) = {}) =>
                \A sl \in SaleRows(r)' :
                   IsOwnerOrEmployee(sl.sellerId, sl.businessId)']_vars

\* C19 as amended: the game path stores the seller by the rule applied when
\* the request arrives, so the seller is the owner or an employee of the
\* business at that moment.
C19_SellerOwnerOrEmployeeAtResolution ==
    [][/\ SellerResolvedByRule
       /\ \A r \in Requests :
             (req[r].pc = "idle" /\ req'[r].path = "game"
                /\ req'[r].pc # "done") =>
                IsOwnerOrEmployee(req'[r].sellerId, req'[r].businessId)]_vars

C19_Witness ==
    \E r \in Requests :
        /\ req[r].path = "game"
        /\ Created(r)
        /\ \E sl \in SaleRows(r) :
              /\ sl.businessId = "b1"
              /\ sl.sellerId = "u2"
              /\ businesses["b1"].ownerId # "u2"
              /\ \E e \in businessEmployees :
                    e.businessId = "b1" /\ e.userId = "u2"

\* C23: the business of a product row is the one it was created with,
\* whatever bodies PATCH /api/products/:id was given, those that carry a
\* businessId included.
C23_ProductBusinessNeverChanges ==
    \A p \in DOMAIN products :
        products[p].businessId = InitialProducts[p].businessId

C23_Witness ==
    /\ resp = Respond("updateProduct", 200)
    /\ \A p \in ProductIds : products[p].stock = 0
    /\ sales = {}

\* C24: an invoice row whose status is "paid" has a paid timestamp, after
\* any updates of its status among pending, paid and cancelled.
C24_PaidInvoiceHasPaidAt ==
    \A inv \in invoices : inv.status = "paid" => inv.paidAt # 0

C24_Witness ==
    \E inv \in invoices :
        /\ inv.status = "paid"
        /\ inv.paidAt = ClockStart + 1
        /\ resp = Respond("updateInvoice", 200)

\* C28: a request that was answered 201 while no other request had arrived
\* asked, for each product, for no more in total over its lines than the
\* stock the product had.
C28_RepeatedProductWithinStock ==
    \A r \in Requests :
        (Created(r) /\ \A q \in Requests \ {r} : req[q].pc = "idle") =>
            \A p \in ProductIds :
                RequestedQty(r, p, Len(req[r].items)) <= InitialStock(p)

\* C27: initializeApp is invoked at most once per process, even when
\* several first requests are in flight at the same time.
C27_InitializeAppAtMostOnce == Len(fn.inits) <= 1

\* C30: once initializeApp has rejected, the rejected promise stays in
\* appPromise: initializeApp is never invoked again, and every request
\* that arrives afterwards fails (500 where the handler has a try/catch).
C30_RejectedInitIsKept ==
    /\ \A f \in FnRequests :
           (fn.h[f].pc = "done" /\ fn.h[f].late) =>
               fn.h[f].outcome =
                   IF fn.variant = "static" THEN "unhandled" ELSE "500"
    /\ (\E k \in 1..Len(fn.inits) : fn.inits[k] = "rejected") =>
           /\ fn.appPromise # NoPromise
           /\ fn.inits[fn.appPromise] = "rejected"

\* C26: after any sequence of add-employee and remove-employee requests,
\* each (business, user) pair has at most one business_employees row.
C26_AtMostOneMembershipRow ==
    \A e1 \in businessEmployees, e2 \in businessEmployees :
        (e1.businessId = e2.businessId /\ e1.userId = e2.userId) =>
            e1.id = e2.id

\* C29: when the owner removes an employee with DELETE /api/employees/:id,
\* the removed user (who is not the owner) is no longer authorized for that
\* business, and a user who is not authorized becomes authorized again
\* only by being added.
C29_RemovedEmployeeLosesAccess ==
    [][/\ (resp'.route = "removeEmployee" /\ resp'.status = 204) =>
              \A e \in businessEmployees \ businessEmployees' :
                  NotOwner(e.businessId, e.userId) =>
                      ~IsUserAuthorizedForBusiness(e.userId, e.businessId)'
       /\ \A u \in Users, b \in BusinessIds :
              (/\ ~IsUserAuthorizedForBusiness(u, b)
               /\ IsUserAuthorizedForBusiness(u, b)') =>
                  resp' = Respond("addEmployee", 201)]_vars

\* C25: whenever a request has passed isAuthenticated and is at its route
\* handler, the users table has a row keyed by the verified external id,
\* carrying the e-mail the provider verified and a name it verified.
C25_HandlerHasUserRow ==
    auth.pc = "handler" =>
        /\ auth.userId \in DOMAIN users
        /\ users[auth.userId].email = ProviderEmail(auth.userId)
        /\ users[auth.userId].firstName \in {"old", "new"}

\* the body breaks the rule on quantities or on the buyer name
BadSaleBody(body) ==
    \/ body.buyerName \in {Absent, ""}
    \/ \E k \in 1..Len(body.lines) :
          LET q == body.lines[k].quantity
          IN  q.num <= 0 \/ q.num % q.den # 0

\* C22: a sale request with a non-positive or non-integer quantity, or an
\* empty or missing buyer name, is rejected with 400 on both entry points
\* before any write; no step of a sale raises the stock of a product.
C22_BadSaleBodyRejected ==
    [][/\ \A r \in Requests :
              (req'[r].pc # "idle" /\ BadSaleBody(req'[r].raw)) =>
                  /\ req'[r].pc = "done"
                  /\ req'[r].status = 400
                  /\ NoWrites(r)'
       /\ \A p \in ProductIds : products'[p].stock <= products[p].stock]_vars

C22_Witness ==
    /\ req[1].pc = "done"
    /\ req[1].status = 400
    /\ req[1].path = "game"
    /\ req[1].raw.buyerName = "bob"
    /\ Len(req[1].raw.lines) = 2
    /\ req[1].raw.lines[1].quantity = [num |-> 1, den |-> 1]
    /\ req[1].raw.lines[2].quantity = [num |-> 1, den |-> 2]

\* C21 as stated: no read endpoint returns or counts an entity of a
\* business that the user neither owns nor is an employee of when the
\* response is made.
C21_ReadsOnlyOwnBusinesses ==
    [][(rd'.pc = "done" /\ rd.pc # "done") =>
          \A e \in rd'.view : IsOwnerOrEmployee(rd'.userId, e.businessId)]_vars

\* C21, amended: every business a read handler lets through (the
\* businessIds of a listing, the business that passes the gate of a by-id
\* read) is one the user owns or is an employee of at the moment the
\* handler reads it, every entity of a 200 response belongs to a business
\* let through, and any other response carries no entity.
C21_ReadsOnlyGrantedBusinesses ==
    [][/\ \A b \in rd'.granted \ rd.granted :
              IsOwnerOrEmployee(rd'.userId, b)
       /\ (rd'.pc = "done" /\ rd'.status = 200) =>
              \A e \in rd'.view : e.businessId \in rd'.granted
       /\ rd'.status \notin {0, 200} => rd'.view = {}]_vars

C21_Witness ==
    /\ rd.pc = "done"
    /\ rd.route = "stats"
    /\ rd.userId = "u3"
    /\ rd.status = 200
    /\ rd.granted = {"b1", "b2"}
    /\ Entity("sale", "b1", "1") \in rd.view
    /\ Entity("product", "b2", "p3") \in rd.view
    /\ ~IsOwnerOrEmployee("u3", "b1")

====
